---------------------------- MODULE Spec2Model ----------------------------
(***************************************************************************)
(* A model of two pieces of the repository:                                *)
(*                                                                         *)
(*  - convertToOpenAICompatibleChatMessages, the translation of a unified  *)
(*    conversation (LanguageModelV1Prompt) into OpenAI-compatible wire      *)
(*    messages, in the two implementations the sources hold: the one that  *)
(*    hoists provider metadata in place (findAndHoistMetadata) and the one  *)
(*    that reads it (getOpenAIMetadata);                                    *)
(*  - embed, the retried, cancellable, traced call of an embedding model.   *)
(*                                                                         *)
(* JavaScript values are modelled as tagged records of one shape, so that  *)
(* the generic walk of findAndHoistMetadata (Array.isArray, typeof,        *)
(* Object.values) can be written as the code writes it:                    *)
(*    t    : the kind ("undefined", "string", "number", "URL",             *)
(*           "Uint8Array", "array", "object")                               *)
(*    s    : the text of a string / number / URL / byte array              *)
(*    keys : an object's own enumerable keys, in insertion order           *)
(*    els  : an object's values (els[i] belongs to keys[i]) or an array's  *)
(*           elements                                                       *)
(***************************************************************************)
EXTENDS Integers, Sequences, FiniteSets, TLC

(***************************************************************************)
(* JavaScript values                                                       *)
(***************************************************************************)
Undefined == [t |-> "undefined", s |-> "", keys |-> <<>>, els |-> <<>>]

Str(s) == [t |-> "string", s |-> s, keys |-> <<>>, els |-> <<>>]

Num(s) == [t |-> "number", s |-> s, keys |-> <<>>, els |-> <<>>]

Url(s) == [t |-> "URL", s |-> s, keys |-> <<>>, els |-> <<>>]

Bytes(s) == [t |-> "Uint8Array", s |-> s, keys |-> <<>>, els |-> <<>>]

Arr(els) == [t |-> "array", s |-> "", keys |-> <<>>, els |-> els]

Obj(keys, els) == [t |-> "object", s |-> "", keys |-> keys, els |-> els]

EmptyObj == Obj(<<>>, <<>>)

\* Array.isArray(v)
IsArray(v) == v.t = "array"

\* A plain object literal
IsObject(v) == v.t = "object"

\* v && typeof v === 'object'
IsObjectLike(v) == v.t \in {"object", "array", "URL", "Uint8Array"}

\* ToBoolean(v)
Truthy(v) == ~(v.t = "undefined" \/ (v.t = "string" /\ v.s = ""))

\* The position of key k among the keys of object o, 0 when o has no such key
KeyIndex(o, k) ==
  IF IsObject(o) /\ \E i \in 1..Len(o.keys) : o.keys[i] = k
    THEN CHOOSE i \in 1..Len(o.keys) : o.keys[i] = k
    ELSE 0

\* k in o (own property)
Has(o, k) == KeyIndex(o, k) # 0

\* o?.k : undefined on a missing key and on a value that has no properties
Get(o, k) == IF Has(o, k) THEN o.els[KeyIndex(o, k)] ELSE Undefined

\* o.k = v : an existing key keeps its place, a new key is appended
Put(o, k, v) ==
  IF Has(o, k)
    THEN Obj(o.keys, [o.els EXCEPT ![KeyIndex(o, k)] = v])
    ELSE Obj(Append(o.keys, k), Append(o.els, v))

\* The indices of seq whose element is not in ks, in order
RECURSIVE KeptIndices(_, _, _)
KeptIndices(keys, ks, i) ==
  IF i > Len(keys) THEN <<>>
  ELSE IF keys[i] \in ks THEN KeptIndices(keys, ks, i + 1)
  ELSE <<i>> \o KeptIndices(keys, ks, i + 1)

\* const { k1, k2, ...rest } = o : the object of o's other keys
Omit(o, ks) ==
  LET idx == KeptIndices(o.keys, ks, 1)
  IN  Obj([j \in 1..Len(idx) |-> o.keys[idx[j]]],
          [j \in 1..Len(idx) |-> o.els[idx[j]]])

\* delete o.k
Delete(o, k) == Omit(o, {k})

\* Object.keys(o).length
KeyCount(o) == Len(o.keys)

\* Object.assign(target, source), also the spread { ...target, ...source }:
\* source's keys are written to target in source's order
RECURSIVE AssignFrom(_, _, _)
AssignFrom(target, source, i) ==
  IF ~IsObject(source) \/ i > Len(source.keys) THEN target
  ELSE AssignFrom(Put(target, source.keys[i], source.els[i]), source, i + 1)

ObjectAssign(target, source) == AssignFrom(target, source, 1)

\* The concatenation of a sequence of strings
RECURSIVE Join(_, _)
Join(strs, sep) ==
  IF Len(strs) = 0 THEN ""
  ELSE IF Len(strs) = 1 THEN strs[1]
  ELSE strs[1] \o sep \o Join(Tail(strs), sep)

\* JSON text of a value that is not undefined
RECURSIVE JsonText(_)
JsonText(v) ==
  CASE v.t = "string" -> "\"" \o v.s \o "\""
    [] v.t = "number" -> v.s
    [] v.t = "URL" -> "\"" \o v.s \o "\""
    [] v.t = "Uint8Array" -> "{}"
    [] v.t = "array" ->
         "[" \o Join([i \in 1..Len(v.els) |->
                        IF v.els[i].t = "undefined" THEN "null"
                        ELSE JsonText(v.els[i])], ",") \o "]"
    [] v.t = "object" ->
         LET idx == KeptIndices([i \in 1..Len(v.keys) |->
                                   IF v.els[i].t = "undefined" THEN "-" ELSE "+"],
                                {"-"}, 1)
         IN  "{" \o Join([j \in 1..Len(idx) |->
                            "\"" \o v.keys[idx[j]] \o "\":" \o JsonText(v.els[idx[j]])],
                         ",") \o "}"
    [] OTHER -> "null"

\* JSON.stringify(v): undefined for undefined, a string otherwise
JSONstringify(v) == IF v.t = "undefined" THEN Undefined ELSE Str(JsonText(v))

(***************************************************************************)
(* Coercions and helpers the conversions use                               *)
(***************************************************************************)
\* String(v), as `text += part.text` and a template literal coerce a value
StringOf(v) ==
  CASE v.t = "undefined" -> "undefined"
    [] v.t \in {"string", "number", "URL"} -> v.s
    [] v.t = "array" -> Join([i \in 1..Len(v.els) |-> v.els[i].s], ",")
    [] OTHER -> "[object Object]"

\* convertUint8ArrayToBase64 (@ai-sdk/provider-utils), tabulated for the byte
\* arrays of the inputs: bytes 01 02 03 encode to AQID
convertUint8ArrayToBase64(image) ==
  IF image.s = "010203" THEN "AQID" ELSE "base64(" \o image.s \o ")"

\* The values `for (const part of content)` visits: an array's elements, a
\* string's characters (the strings that reach this position in the inputs
\* hold one character)
IterationOf(content) ==
  IF IsArray(content) THEN content.els
  ELSE IF content.s = "" THEN <<>>
  ELSE <<Str(content.s)>>

\* for...of accepts arrays and strings
IsIterable(content) == content.t \in {"array", "string"}

\* const { k, ...rest } = v on a value v: an object's other keys; a string's
\* characters under their indices (one character in the inputs)
RestOf(v, ks) ==
  IF IsObject(v) THEN Omit(v, ks)
  ELSE IF v.t = "string" /\ v.s # "" THEN Obj(<<"0">>, <<Str(v.s)>>)
  ELSE EmptyObj

\* What a conversion yields: the error it throws ("none" when it returns) and
\* the values it produces
Returned(out) == [thrown |-> "none", out |-> out]

Thrown(e) == [thrown |-> e, out |-> <<>>]

\* The first error among a sequence of results, "none" when none throws
RECURSIVE FirstThrown(_, _)
FirstThrown(results, i) ==
  IF i > Len(results) THEN "none"
  ELSE IF results[i].thrown # "none" THEN results[i].thrown
  ELSE FirstThrown(results, i + 1)

(***************************************************************************)
(* findAndHoistMetadata: the in-place hoisting of the openaiCompatible     *)
(* bag of a value and of everything below it.  The operator yields the     *)
(* value as the walk leaves it; the caller's object IS that value after    *)
(* the call, the walk works on the object it is given.                     *)
(***************************************************************************)
TargetNamespace == "openaiCompatible"

\* Lines 10-16: the bag's keys are assigned onto obj, the bag is deleted from
\* obj.providerMetadata, and an emptied providerMetadata is deleted from obj
HoistOwn(obj) ==
  IF Truthy(Get(Get(obj, "providerMetadata"), TargetNamespace))
    THEN LET assigned == ObjectAssign(obj, Get(Get(obj, "providerMetadata"), TargetNamespace))
             pm == Delete(Get(assigned, "providerMetadata"), TargetNamespace)
         IN  IF KeyCount(pm) = 0
               THEN Delete(assigned, "providerMetadata")
               ELSE Put(assigned, "providerMetadata", pm)
    ELSE obj

\* Lines 18-22: the walk goes on into every element of an array and every
\* value of an object (a URL has no own enumerable values, a Uint8Array's are
\* numbers: nothing to hoist in either)
RECURSIVE findAndHoistMetadata(_)
findAndHoistMetadata(obj) ==
  LET o == HoistOwn(obj)
  IN  IF IsArray(o)
        THEN Arr([i \in 1..Len(o.els) |-> findAndHoistMetadata(o.els[i])])
      ELSE IF IsObject(o)
        THEN Obj(o.keys, [i \in 1..Len(o.els) |-> findAndHoistMetadata(o.els[i])])
      ELSE o

(***************************************************************************)
(* convertToOpenAICompatibleChatMessages, the implementation of            *)
(* packages/openai-compatible/src: each message is converted after         *)
(* findAndHoistMetadata ran over the whole prompt.  The operators take the *)
(* message as the loop finds it, `{ role, content, ...rest }`.             *)
(***************************************************************************)
UnsupportedFunctionalityError == "UnsupportedFunctionalityError"

UnsupportedRole == "Error: Unsupported role"

UnsupportedPart == "Error: Unsupported part"

TypeError == "TypeError"

\* case 'system' (lines 44-47)
convertSystem(content, rest) ==
  Returned(<<ObjectAssign(Obj(<<"role", "content">>, <<Str("system"), content>>), rest)>>)

\* content.length === 1 && content[0].type === 'text' (line 50): a string of
\* one character has no `type`
IsSingleTextPart(content) ==
  /\ IsArray(content)
  /\ Len(content.els) = 1
  /\ Get(content.els[1], "type") = Str("text")

\* The single text part of a user message (lines 50-55)
convertUserSingleText(content, rest) ==
  LET part == content.els[1]
      text == Get(part, "text")
      contentRest == RestOf(part, {"text", "type"})
  IN  Returned(<<ObjectAssign(
                   ObjectAssign(Obj(<<"role", "content">>, <<Str("user"), text>>), rest),
                   contentRest)>>)

\* image instanceof URL ? image.toString() : `data:${mimeType ?? 'image/jpeg'};base64,${...}`
\* (lines 73-77)
ImageUrl(image, mimeType) ==
  IF image.t = "URL"
    THEN Str(image.s)
    ELSE Str("data:"
             \o (IF mimeType.t = "undefined" THEN "image/jpeg" ELSE StringOf(mimeType))
             \o ";base64," \o convertUint8ArrayToBase64(image))

\* One part of a user message (lines 59-88); a part of no known type maps to
\* undefined (the switch returns nothing)
convertUserPart(part) ==
  LET type == Get(part, "type")
  IN  CASE type = Str("text") ->
             Returned(<<ObjectAssign(Obj(<<"type", "text">>, <<type, Get(part, "text")>>),
                                     RestOf(part, {"type", "text"}))>>)
        [] type = Str("image") ->
             Returned(<<ObjectAssign(
                          Obj(<<"type", "image_url">>,
                              <<Str("image_url"),
                                Obj(<<"url">>,
                                    <<ImageUrl(Get(part, "image"), Get(part, "mimeType"))>>)>>),
                          RestOf(part, {"type", "image", "mimeType"}))>>)
        [] type = Str("file") -> Thrown(UnsupportedFunctionalityError)
        [] OTHER -> Returned(<<Undefined>>)

\* A user message that is not a single text part (lines 57-93): content.map
\* exists on arrays only, and a part that throws ends the conversion
convertUserParts(content, rest) ==
  IF ~IsArray(content) THEN Thrown(TypeError)
  ELSE LET mapped == [i \in 1..Len(content.els) |-> convertUserPart(content.els[i])]
       IN  IF FirstThrown(mapped, 1) # "none" THEN Thrown(FirstThrown(mapped, 1))
           ELSE Returned(<<ObjectAssign(
                             Obj(<<"role", "content">>,
                                 <<Str("user"),
                                   Arr([i \in 1..Len(mapped) |-> mapped[i].out[1]])>>),
                             rest)>>)

\* case 'user' (lines 49-93)
convertUser(content, rest) ==
  IF IsSingleTextPart(content)
    THEN convertUserSingleText(content, rest)
    ELSE convertUserParts(content, rest)

\* A tool-call part of an assistant message (lines 111-122)
convertToolCall(part) ==
  ObjectAssign(
    Obj(<<"id", "type", "function">>,
        <<Get(part, "toolCallId"),
          Str("function"),
          Obj(<<"name", "arguments">>,
              <<Get(part, "toolName"), JSONstringify(Get(part, "args"))>>)>>),
    RestOf(part, {"type", "toolCallId", "toolName", "args"}))

\* The loop over an assistant message's parts (lines 103-129), from part i on
\* with the text and the tool calls collected so far: the error thrown, the
\* text and the tool calls
RECURSIVE AssistantLoop(_, _, _, _)
AssistantLoop(parts, i, text, toolCalls) ==
  IF i > Len(parts) THEN [thrown |-> "none", text |-> text, toolCalls |-> toolCalls]
  ELSE LET part == parts[i]
           type == Get(part, "type")
       IN  CASE type = Str("text") ->
                  AssistantLoop(parts, i + 1, text \o StringOf(Get(part, "text")), toolCalls)
             [] type = Str("tool-call") ->
                  AssistantLoop(parts, i + 1, text, Append(toolCalls, convertToolCall(part)))
             [] OTHER -> [thrown |-> UnsupportedPart, text |-> text, toolCalls |-> toolCalls]

\* case 'assistant' (lines 95-139)
convertAssistant(content, rest) ==
  IF ~IsIterable(content) THEN Thrown(TypeError)
  ELSE LET loop == AssistantLoop(IterationOf(content), 1, "", <<>>)
       IN  IF loop.thrown # "none" THEN Thrown(loop.thrown)
           ELSE Returned(<<ObjectAssign(
                             Obj(<<"role", "content", "tool_calls">>,
                                 <<Str("assistant"),
                                   Str(loop.text),
                                   IF Len(loop.toolCalls) > 0
                                     THEN Arr(loop.toolCalls) ELSE Undefined>>),
                             rest)>>)

\* One tool-result part of a tool message (lines 143-150)
convertToolResponse(toolResponse, rest) ==
  ObjectAssign(
    ObjectAssign(
      Obj(<<"role", "tool_call_id", "content">>,
          <<Str("tool"),
            Get(toolResponse, "toolCallId"),
            JSONstringify(Get(toolResponse, "result"))>>),
      RestOf(toolResponse, {"type", "content", "toolCallId", "toolName", "result"})),
    rest)

\* case 'tool' (lines 141-153)
convertTool(content, rest) ==
  IF ~IsIterable(content) THEN Thrown(TypeError)
  ELSE LET parts == IterationOf(content)
       IN  Returned([i \in 1..Len(parts) |-> convertToolResponse(parts[i], rest)])

\* The body of `for (const { role, content, ...rest } of prompt)` (lines
\* 37-160): the wire messages one message adds, or the error it throws
convertMessage(message) ==
  LET role == Get(message, "role")
      content == Get(message, "content")
      rest == RestOf(message, {"role", "content"})
  IN  CASE role = Str("system") -> convertSystem(content, rest)
        [] role = Str("user") -> convertUser(content, rest)
        [] role = Str("assistant") -> convertAssistant(content, rest)
        [] role = Str("tool") -> convertTool(content, rest)
        [] OTHER -> Thrown(UnsupportedRole)

(***************************************************************************)
(* convertToOpenAICompatibleChatMessages, the implementation that reads    *)
(* the metadata with getOpenAIMetadata and leaves the prompt alone.        *)
(***************************************************************************)
\* message?.providerMetadata?.openaiCompatible ?? {}
getOpenAIMetadata(message) ==
  LET bag == Get(Get(message, "providerMetadata"), TargetNamespace)
  IN  IF bag.t = "undefined" THEN EmptyObj ELSE bag

\* case 'system'
readSystem(message) ==
  Returned(<<ObjectAssign(
               Obj(<<"role", "content">>, <<Str("system"), Get(message, "content")>>),
               getOpenAIMetadata(message))>>)

\* The single text part of a user message: the part's metadata only
readUserSingleText(message) ==
  LET part == Get(message, "content").els[1]
  IN  Returned(<<ObjectAssign(
                   Obj(<<"role", "content">>, <<Str("user"), Get(part, "text")>>),
                   getOpenAIMetadata(part))>>)

\* One part of a user message
readUserPart(part) ==
  LET type == Get(part, "type")
  IN  CASE type = Str("text") ->
             Returned(<<ObjectAssign(
                          Obj(<<"type", "text">>, <<Str("text"), Get(part, "text")>>),
                          getOpenAIMetadata(part))>>)
        [] type = Str("image") ->
             Returned(<<ObjectAssign(
                          Obj(<<"type", "image_url">>,
                              <<Str("image_url"),
                                Obj(<<"url">>,
                                    <<ImageUrl(Get(part, "image"), Get(part, "mimeType"))>>)>>),
                          getOpenAIMetadata(part))>>)
        [] type = Str("file") -> Thrown(UnsupportedFunctionalityError)
        [] OTHER -> Returned(<<Undefined>>)

\* A user message that is not a single text part
readUserParts(message) ==
  LET content == Get(message, "content")
  IN  IF ~IsArray(content) THEN Thrown(TypeError)
      ELSE LET mapped == [i \in 1..Len(content.els) |-> readUserPart(content.els[i])]
           IN  IF FirstThrown(mapped, 1) # "none" THEN Thrown(FirstThrown(mapped, 1))
               ELSE Returned(<<ObjectAssign(
                                 Obj(<<"role", "content">>,
                                     <<Str("user"),
                                       Arr([i \in 1..Len(mapped) |-> mapped[i].out[1]])>>),
                                 getOpenAIMetadata(message))>>)

\* case 'user'
readUser(message) ==
  IF IsSingleTextPart(Get(message, "content"))
    THEN readUserSingleText(message)
    ELSE readUserParts(message)

\* A tool-call part of an assistant message
readToolCall(part) ==
  ObjectAssign(
    Obj(<<"id", "type", "function">>,
        <<Get(part, "toolCallId"),
          Str("function"),
          Obj(<<"name", "arguments">>,
              <<Get(part, "toolName"), JSONstringify(Get(part, "args"))>>)>>),
    getOpenAIMetadata(part))

\* The loop over an assistant message's parts
RECURSIVE ReadAssistantLoop(_, _, _, _)
ReadAssistantLoop(parts, i, text, toolCalls) ==
  IF i > Len(parts) THEN [thrown |-> "none", text |-> text, toolCalls |-> toolCalls]
  ELSE LET part == parts[i]
           type == Get(part, "type")
       IN  CASE type = Str("text") ->
                  ReadAssistantLoop(parts, i + 1, text \o StringOf(Get(part, "text")), toolCalls)
             [] type = Str("tool-call") ->
                  ReadAssistantLoop(parts, i + 1, text, Append(toolCalls, readToolCall(part)))
             [] OTHER -> [thrown |-> UnsupportedPart, text |-> text, toolCalls |-> toolCalls]

\* case 'assistant'
readAssistant(message) ==
  LET content == Get(message, "content")
  IN  IF ~IsIterable(content) THEN Thrown(TypeError)
      ELSE LET loop == ReadAssistantLoop(IterationOf(content), 1, "", <<>>)
           IN  IF loop.thrown # "none" THEN Thrown(loop.thrown)
               ELSE Returned(<<ObjectAssign(
                                 Obj(<<"role", "content", "tool_calls">>,
                                     <<Str("assistant"),
                                       Str(loop.text),
                                       IF Len(loop.toolCalls) > 0
                                         THEN Arr(loop.toolCalls) ELSE Undefined>>),
                                 getOpenAIMetadata(message))>>)

\* One tool-result part of a tool message: the part's metadata only
readToolResponse(toolResponse) ==
  ObjectAssign(
    Obj(<<"role", "tool_call_id", "content">>,
        <<Str("tool"),
          Get(toolResponse, "toolCallId"),
          JSONstringify(Get(toolResponse, "result"))>>),
    getOpenAIMetadata(toolResponse))

\* case 'tool'
readTool(message) ==
  LET content == Get(message, "content")
  IN  IF ~IsIterable(content) THEN Thrown(TypeError)
      ELSE LET parts == IterationOf(content)
           IN  Returned([i \in 1..Len(parts) |-> readToolResponse(parts[i])])

\* The body of `for (const message of prompt)`
readMessage(message) ==
  LET role == Get(message, "role")
  IN  CASE role = Str("system") -> readSystem(message)
        [] role = Str("user") -> readUser(message)
        [] role = Str("assistant") -> readAssistant(message)
        [] role = Str("tool") -> readTool(message)
        [] OTHER -> Thrown(UnsupportedRole)

(***************************************************************************)
(* The conversations the check runs over                                   *)
(***************************************************************************)
\* The most parts a message of the exhaustive family holds
MaxParts == 2

\* The most messages a conversation holds
MaxMsgs == 2

\* Every sequence over S of at most n elements
SeqsUpTo(S, n) == UNION {[1..k -> S] : k \in 0..n}

\* obj with providerMetadata pm, when there is one
WithProviderMetadata(obj, pm) ==
  IF pm = Undefined THEN obj ELSE Put(obj, "providerMetadata", pm)

\* providerMetadata holding the bag of the target namespace
ForTarget(bag) == Obj(<<TargetNamespace>>, <<bag>>)

\* providerMetadata holding a bag of another provider's namespace
ForOther(bag) == Obj(<<"anthropic">>, <<bag>>)

\* The overlays a message carries: none; neutral keys; a key that names the
\* structural field content or role; another provider's bag; both namespaces
MessageMetadata ==
  { Undefined,
    ForTarget(Obj(<<"name", "tag">>, <<Str("m"), Str("m")>>)),
    ForTarget(Obj(<<"content">>, <<Str("c")>>)),
    ForTarget(Obj(<<"role">>, <<Str("r")>>)),
    ForOther(Obj(<<"name">>, <<Str("o")>>)),
    Obj(<<TargetNamespace, "anthropic">>,
        <<Obj(<<"name", "tag">>, <<Str("m"), Str("m")>>), Obj(<<"name">>, <<Str("o")>>)>>) }

\* The overlays a part carries: none; a neutral key (the message's key `name`
\* with another value); a key that names the structural field text or
\* content; another provider's bag
PartMetadata ==
  { Undefined,
    ForTarget(Obj(<<"name">>, <<Str("p")>>)),
    ForTarget(Obj(<<"text">>, <<Str("t")>>)),
    ForTarget(Obj(<<"content">>, <<Str("c")>>)),
    ForOther(Obj(<<"name">>, <<Str("q")>>)) }

TextPart(text, pm) ==
  WithProviderMetadata(Obj(<<"type", "text">>, <<Str("text"), Str(text)>>), pm)

ImagePart(image, mimeType, pm) ==
  WithProviderMetadata(
    IF mimeType = Undefined
      THEN Obj(<<"type", "image">>, <<Str("image"), image>>)
      ELSE Obj(<<"type", "image", "mimeType">>, <<Str("image"), image, mimeType>>),
    pm)

FilePart(pm) ==
  WithProviderMetadata(
    Obj(<<"type", "data", "mimeType">>,
        <<Str("file"), Str("JVBERi0="), Str("application/pdf")>>),
    pm)

ToolCallPart(toolCallId, toolName, args, pm) ==
  WithProviderMetadata(
    Obj(<<"type", "toolCallId", "toolName", "args">>,
        <<Str("tool-call"), Str(toolCallId), Str(toolName), args>>),
    pm)

ToolResultPart(toolCallId, toolName, result, pm) ==
  WithProviderMetadata(
    Obj(<<"type", "toolCallId", "toolName", "result">>,
        <<Str("tool-result"), Str(toolCallId), Str(toolName), result>>),
    pm)

\* An args / result value: a plain object, and one that itself holds a
\* providerMetadata field with a bag of the target namespace
PlainValue == Obj(<<"x">>, <<Num("1")>>)

NestedValue ==
  Obj(<<"y", "providerMetadata">>,
      <<Num("2"), ForTarget(Obj(<<"z">>, <<Num("3")>>))>>)

UserParts ==
  {TextPart(text, pm) : text \in {"a", "b"}, pm \in PartMetadata}
    \cup {ImagePart(Url("https://u/i.png"), Undefined, pm) :
            pm \in {Undefined, ForTarget(Obj(<<"name">>, <<Str("p")>>))}}
    \cup {ImagePart(Bytes("010203"), mimeType, Undefined) :
            mimeType \in {Undefined, Str("image/png")}}
    \cup {FilePart(pm) : pm \in {Undefined, ForTarget(Obj(<<"name">>, <<Str("p")>>))}}

AssistantParts ==
  {TextPart(text, pm) : text \in {"a", "b"}, pm \in PartMetadata}
    \cup {ToolCallPart("1", "f", PlainValue, pm) : pm \in PartMetadata}
    \cup {ToolCallPart("2", "g", NestedValue, Undefined)}

ToolParts ==
  {ToolResultPart("1", "f", PlainValue, pm) : pm \in PartMetadata}
    \cup {ToolResultPart("2", "g", NestedValue, Undefined),
          ToolResultPart("3", "h", Str("ok"), Undefined)}

Message(role, content, pm) ==
  WithProviderMetadata(Obj(<<"role", "content">>, <<Str(role), content>>), pm)

\* Every message of at most MaxParts parts over the parts and overlays above
Messages ==
  {Message("system", Str("s"), pm) : pm \in MessageMetadata}
    \cup {Message("user", Arr(parts), pm) :
            parts \in SeqsUpTo(UserParts, MaxParts), pm \in MessageMetadata}
    \cup {Message("assistant", Arr(parts), pm) :
            parts \in SeqsUpTo(AssistantParts, MaxParts), pm \in MessageMetadata}
    \cup {Message("tool", Arr(parts), pm) :
            parts \in SeqsUpTo(ToolParts, MaxParts), pm \in MessageMetadata}

\* The messages the longer conversations are made of
ContextMessages ==
  { Message("system", Str("s"), Undefined),
    Message("system", Str("s"), ForTarget(Obj(<<"name", "tag">>, <<Str("m"), Str("m")>>))),
    Message("user", Arr(<<TextPart("a", Undefined)>>), Undefined),
    Message("user", Arr(<<TextPart("a", Undefined)>>),
            ForTarget(Obj(<<"content">>, <<Str("c")>>))),
    Message("user", Arr(<<FilePart(Undefined)>>), Undefined),
    Message("user", Arr(<<TextPart("a", Undefined), FilePart(Undefined)>>), Undefined),
    Message("assistant",
            Arr(<<TextPart("a", Undefined), ToolCallPart("1", "f", PlainValue, Undefined)>>),
            Undefined),
    Message("assistant",
            Arr(<<TextPart("a", ForTarget(Obj(<<"text">>, <<Str("t")>>)))>>), Undefined),
    Message("tool", Arr(<<>>), Undefined),
    Message("tool", Arr(<<ToolResultPart("1", "f", PlainValue, Undefined)>>), Undefined),
    Message("tool",
            Arr(<<ToolResultPart("1", "f", PlainValue, Undefined),
                  ToolResultPart("2", "g", NestedValue, Undefined)>>),
            ForOther(Obj(<<"name">>, <<Str("o")>>))) }

\* The conversations: the empty one, every single message, and every sequence
\* of 2..MaxMsgs context messages
Conversations ==
  {<<>>} \cup {<<m>> : m \in Messages}
         \cup UNION {[1..k -> ContextMessages] : k \in 2..MaxMsgs}

(***************************************************************************)
(* The state of one call of convertToOpenAICompatibleChatMessages          *)
(***************************************************************************)
VARIABLES
  impl,       \* which implementation runs: "hoist" or "read"
  original,   \* the caller's conversation as it was when the call started
  prompt,     \* the caller's conversation (the object the call is given)
  pc,         \* "hoisting", "converting", "returned", "thrown" ("idle": no call)
  i,          \* the loop index (1-based)
  messages,   \* the local array of wire messages
  segments,   \* segments[j]: the wire messages pushed for the j-th message
  returned,   \* the array the call returned
  thrown,     \* the error the call threw, "none" when it threw none
  call,       \* 1 for the first call on the prompt object, 2 for the second
  firstOutcome  \* how the first call ended, once a second one has started

reuseVars == <<call, firstOutcome>>

normVars ==
  <<impl, original, prompt, pc, i, messages, segments, returned, thrown, reuseVars>>

\* No call on the prompt object has ended yet
NoOutcome == [pc |-> "none", returned |-> <<>>, thrown |-> "none"]

(***************************************************************************)
(* The state of one call of embed                                          *)
(***************************************************************************)
VARIABLES
  phase,                 \* where the call of embed is ("idle": no call)
  specificationVersion,  \* model.specificationVersion
  maxRetriesArg,         \* the maxRetries option: <<>> when omitted, <<n>> when given
  telemetry,             \* experimental_telemetry.isEnabled
  abortSignal,           \* the caller's signal: aborted, and when it fired
  failures,              \* how often the provider fails transiently before it succeeds
  maxRetries,            \* the bound prepareRetries resolved
  tryNumber,             \* the attempts retry has started
  doEmbedCalls,          \* the arguments of every doEmbed invocation, in order
  errors,                \* the errors doEmbed threw, in order
  spanLog,               \* the tracer's events, in order
  thunks,                \* the attribute thunks evaluated, in order
  modelResponse,         \* what the last doEmbed invocation answered
  embedResult,           \* the EmbedResult the call resolved with
  rejection              \* the error the call rejected with

embedVars ==
  <<phase, specificationVersion, maxRetriesArg, telemetry, abortSignal, failures,
    maxRetries, tryNumber, doEmbedCalls, errors, spanLog, thunks,
    modelResponse, embedResult, rejection>>

vars == <<normVars, embedVars>>

NoError == [name |-> "none", attempt |-> 0]

NoResponse ==
  [attempt |-> 0, embeddings |-> <<>>, usage |-> "undefined",
   providerMetadata |-> "undefined", response |-> "undefined"]

NoResult ==
  [made |-> FALSE, value |-> "", embedding |-> "", usage |-> "",
   providerMetadata |-> "", response |-> "", attempt |-> 0]

\* No call of embed is under way
EmbedIdle ==
  /\ phase = "idle"
  /\ specificationVersion = "v2"
  /\ maxRetriesArg = <<>>
  /\ telemetry = FALSE
  /\ abortSignal = [aborted |-> FALSE, tries |-> 0, calls |-> 0]
  /\ failures = 0
  /\ maxRetries = 0
  /\ tryNumber = 0
  /\ doEmbedCalls = <<>>
  /\ errors = <<>>
  /\ spanLog = <<>>
  /\ thunks = <<>>
  /\ modelResponse = NoResponse
  /\ embedResult = NoResult
  /\ rejection = NoError

\* No call of convertToOpenAICompatibleChatMessages is under way
NormIdle ==
  /\ impl = "hoist"
  /\ original = <<>>
  /\ prompt = <<>>
  /\ pc = "idle"
  /\ i = 1
  /\ messages = <<>>
  /\ segments = <<>>
  /\ returned = <<>>
  /\ thrown = "none"
  /\ call = 1
  /\ firstOutcome = NoOutcome

\* A call of implementation which starts on a conversation of the family
InitOf(which) ==
  /\ impl = which
  /\ prompt \in Conversations
  /\ original = prompt
  /\ pc = IF which = "hoist" THEN "hoisting" ELSE "converting"
  /\ i = 1
  /\ messages = <<>>
  /\ segments = <<>>
  /\ returned = <<>>
  /\ thrown = "none"
  /\ call = 1
  /\ firstOutcome = NoOutcome
  /\ EmbedIdle

\* The implementation of packages/openai-compatible/src
Init == InitOf("hoist")

\* The implementation that reads the metadata
InitRead == InitOf("read")

\* The prompt after findAndHoistMetadata(prompt[i])
HoistAt(p, j) == [p EXCEPT ![j] = findAndHoistMetadata(p[j])]

\* for (let i = 0; i < prompt.length; i++) findAndHoistMetadata(prompt[i])
\* (lines 32-34): one iteration
HoistStep ==
  /\ pc = "hoisting"
  /\ i <= Len(prompt)
  /\ prompt' = HoistAt(prompt, i)
  /\ i' = i + 1
  /\ UNCHANGED <<impl, original, pc, messages, segments, returned, thrown>>
  /\ UNCHANGED reuseVars
  /\ UNCHANGED embedVars

\* The hoisting loop ends, the conversion loop starts (line 37)
HoistEnd ==
  /\ pc = "hoisting"
  /\ i > Len(prompt)
  /\ pc' = "converting"
  /\ i' = 1
  /\ UNCHANGED <<impl, original, prompt, messages, segments, returned, thrown>>
  /\ UNCHANGED reuseVars
  /\ UNCHANGED embedVars

\* What converting the i-th message yields under the implementation running
Converted == IF impl = "hoist" THEN convertMessage(prompt[i]) ELSE readMessage(prompt[i])

\* One iteration of the conversion loop that pushes its wire messages
ConvertStep ==
  /\ pc = "converting"
  /\ i <= Len(prompt)
  /\ Converted.thrown = "none"
  /\ messages' = messages \o Converted.out
  /\ segments' = Append(segments, Converted.out)
  /\ i' = i + 1
  /\ UNCHANGED <<impl, original, prompt, pc, returned, thrown>>
  /\ UNCHANGED reuseVars
  /\ UNCHANGED embedVars

\* One iteration of the conversion loop that throws: the call ends, its local
\* array is lost
ConvertThrow ==
  /\ pc = "converting"
  /\ i <= Len(prompt)
  /\ Converted.thrown # "none"
  /\ thrown' = Converted.thrown
  /\ pc' = "thrown"
  /\ UNCHANGED <<impl, original, prompt, i, messages, segments, returned>>
  /\ UNCHANGED reuseVars
  /\ UNCHANGED embedVars

\* return messages (line 162)
Return ==
  /\ pc = "converting"
  /\ i > Len(prompt)
  /\ returned' = messages
  /\ pc' = "returned"
  /\ UNCHANGED <<impl, original, prompt, i, messages, segments, thrown>>
  /\ UNCHANGED reuseVars
  /\ UNCHANGED embedVars

Next == HoistStep \/ HoistEnd \/ ConvertStep \/ ConvertThrow \/ Return

Spec == Init /\ [][Next]_vars

NextRead == ConvertStep \/ ConvertThrow \/ Return

\* The wire messages of the call before, still in the array
LeftoverMessages == messages

\* const messages = [] (line 28): every call has an array of its own
FreshMessages == <<>>

\* The caller passes the same prompt object to a second call once the first
\* has returned or thrown (the function is synchronous: two calls never
\* overlap); the object is as the first call left it
CallAgain ==
  /\ call = 1
  /\ pc \in {"returned", "thrown"}
  /\ firstOutcome' = [pc |-> pc, returned |-> returned, thrown |-> thrown]
  /\ call' = 2
  /\ pc' = IF impl = "hoist" THEN "hoisting" ELSE "converting"
  /\ i' = 1
  /\ messages' = FreshMessages
  /\ segments' = <<>>
  /\ returned' = <<>>
  /\ thrown' = "none"
  /\ UNCHANGED <<impl, original, prompt>>
  /\ UNCHANGED embedVars

NextReuse == Next \/ CallAgain

\* Two calls, one after the other, on one prompt object
SpecReuse == Init /\ [][NextReuse]_vars

SpecRead == InitRead /\ [][NextRead]_vars

(***************************************************************************)
(* What the claims speak of                                                *)
(***************************************************************************)
\* The set of elements of a sequence
Range(seq) == {seq[k] : k \in 1..Len(seq)}

\* The call has ended
Done == pc \in {"returned", "thrown"}

\* The call threw while converting the j-th message
ThrewAt(j) == pc = "thrown" /\ i = j

\* The j-th message has been converted: its wire messages are segments[j]
ConvertedAt(j) == j <= Len(segments)

\* The caller's j-th message has role r
HasRole(j, r) == Get(original[j], "role") = Str(r)

\* The parts of the caller's j-th message
PartsOf(j) == Get(original[j], "content").els

\* The bag a message or part carries for the target namespace, {} without one
Overlay(v) ==
  IF IsObject(Get(Get(v, "providerMetadata"), TargetNamespace))
    THEN Get(Get(v, "providerMetadata"), TargetNamespace)
    ELSE EmptyObj

\* The namespaces other than the target a message or part carries bags for
OtherNamespaces(v) == Range(Get(v, "providerMetadata").keys) \ {TargetNamespace}

\* A field that is there on the wire: JSON leaves out an undefined value
Present(w, k) == Has(w, k) /\ Get(w, k) # Undefined

\* The same value whatever the order of the keys, undefined fields left out
RECURSIVE WireEqual(_, _)
WireEqual(a, b) ==
  IF a.t # b.t THEN FALSE
  ELSE IF a.t = "object"
    THEN /\ {k \in Range(a.keys) : Present(a, k)} = {k \in Range(b.keys) : Present(b, k)}
         /\ \A k \in {k \in Range(a.keys) : Present(a, k)} : WireEqual(Get(a, k), Get(b, k))
  ELSE IF a.t = "array"
    THEN /\ Len(a.els) = Len(b.els)
         /\ \A k \in 1..Len(a.els) : WireEqual(a.els[k], b.els[k])
  ELSE a = b

\* The wire object w carries every key of the bag with the bag's value
CarriesBag(w, bag) == \A k \in Range(bag.keys) : Get(w, k) = Get(bag, k)

\* C1: the call never mutates the caller's conversation: once it has returned
\* or thrown, every message, part and providerMetadata bag of the input is as
\* it was before the call.
C1_InputNotMutated == Done => prompt = original

\* The bag of namespace ns that v carries is on the wire object w, under
\* providerMetadata and unchanged, and none of its keys became a field of w
UntouchedOn(w, v, ns) ==
  LET bag == Get(Get(v, "providerMetadata"), ns)
  IN  /\ Get(Get(w, "providerMetadata"), ns) = bag
      /\ \A k \in Range(bag.keys) : Get(w, k) # Get(bag, k)

\* C2: an overlay under a namespace other than the target is left untouched in
\* the output: the wire messages of a message that carries one, and the wire
\* message of a user part collapsed into it or of a tool-result part, still
\* carry it, unmerged, also when message and part both carry one.
C2_OtherNamespaceUntouched ==
  \A j \in 1..Len(original) :
    ConvertedAt(j) =>
      /\ \A ns \in OtherNamespaces(original[j]) :
           \A k \in 1..Len(segments[j]) : UntouchedOn(segments[j][k], original[j], ns)
      /\ (HasRole(j, "tool") \/ (HasRole(j, "user") /\ IsSingleTextPart(Get(original[j], "content"))))
           => \A k \in 1..Len(PartsOf(j)) :
                \A ns \in OtherNamespaces(PartsOf(j)[k]) :
                  /\ k <= Len(segments[j])
                  /\ UntouchedOn(segments[j][k], PartsOf(j)[k], ns)

\* C3: a user message of exactly one text part becomes one wire message
\* { role: user, content: <the part's text> } merged with the message's
\* overlay and then the part's overlay (the part's value on a shared key);
\* with no overlay at all it is exactly { role: "user", content: text }.
C3_SingleUserTextCollapsed ==
  \A j \in 1..Len(original) :
    (HasRole(j, "user") /\ IsSingleTextPart(Get(original[j], "content"))) =>
      /\ ~ThrewAt(j)
      /\ ConvertedAt(j) =>
           /\ Len(segments[j]) = 1
           /\ WireEqual(
                Delete(segments[j][1], "providerMetadata"),
                ObjectAssign(
                  ObjectAssign(
                    Obj(<<"role", "content">>, <<Str("user"), Get(PartsOf(j)[1], "text")>>),
                    Overlay(original[j])),
                  Overlay(PartsOf(j)[1])))
           /\ (~Has(original[j], "providerMetadata") /\ ~Has(PartsOf(j)[1], "providerMetadata"))
                => segments[j][1]
                     = Obj(<<"role", "content">>, <<Str("user"), Get(PartsOf(j)[1], "text")>>)

\* C4: every wire message of a tool message carries the tool-result part's
\* overlay and the message's overlay, the part's value on a key both have.
C4_ToolPartOverlayWins ==
  \A j \in 1..Len(original) :
    HasRole(j, "tool") =>
      /\ ~ThrewAt(j)
      /\ ConvertedAt(j) =>
           \A k \in 1..Len(PartsOf(j)) :
             /\ k <= Len(segments[j])
             /\ CarriesBag(segments[j][k], Overlay(PartsOf(j)[k]))
             /\ CarriesBag(segments[j][k],
                           Omit(Overlay(original[j]), Range(Overlay(PartsOf(j)[k]).keys)))

\* The parts of the given type among parts, in order
RECURSIVE PartsOfType(_, _)
PartsOfType(parts, type) ==
  IF Len(parts) = 0 THEN <<>>
  ELSE IF Get(parts[1], "type") = Str(type)
    THEN <<parts[1]>> \o PartsOfType(Tail(parts), type)
  ELSE PartsOfType(Tail(parts), type)

\* The texts of the text parts among parts, one after the other
TextOf(parts) ==
  LET texts == PartsOfType(parts, "text")
  IN  Join([k \in 1..Len(texts) |-> Get(texts[k], "text").s], "")

\* The wire tool call { id, type: function, function: { name, arguments } }
\* of a tool-call part, as the caller supplied the part
WireToolCallOf(part) ==
  Obj(<<"id", "type", "function">>,
      <<Get(part, "toolCallId"),
        Str("function"),
        Obj(<<"name", "arguments">>,
            <<Get(part, "toolName"), JSONstringify(Get(part, "args"))>>)>>)

\* The value of field k of a wire object built from v: v's overlay has the
\* last word on a key it holds (spec.md 4.1: overlay keys take precedence over
\* structural fields), otherwise it is the structural value own
UnlessOverlaid(v, k, own) == IF Has(Overlay(v), k) THEN Get(Overlay(v), k) ELSE own

\* C5: an assistant message becomes exactly one wire message whose content is
\* the texts of its text parts in input order ("" without one) and whose
\* tool_calls is there iff it has a tool-call part; then it holds one entry
\* { id, type: function, function: { name, arguments: serialize(args) } }
\* per tool-call part, in input order.
C5_AssistantTextAndToolCalls ==
  \A j \in 1..Len(original) :
    HasRole(j, "assistant") =>
      /\ ~ThrewAt(j)
      /\ ConvertedAt(j) =>
           LET toolCallParts == PartsOfType(PartsOf(j), "tool-call")
           IN  /\ Len(segments[j]) = 1
               /\ Get(segments[j][1], "content")
                    = UnlessOverlaid(original[j], "content", Str(TextOf(PartsOf(j))))
               /\ Present(segments[j][1], "tool_calls") <=> Len(toolCallParts) > 0
               /\ Len(toolCallParts) > 0 =>
                    /\ IsArray(Get(segments[j][1], "tool_calls"))
                    /\ Len(Get(segments[j][1], "tool_calls").els) = Len(toolCallParts)
                    /\ \A k \in 1..Len(toolCallParts) :
                         \A f \in {"id", "type", "function"} :
                           Get(Get(segments[j][1], "tool_calls").els[k], f)
                             = Get(WireToolCallOf(toolCallParts[k]), f)

\* C6: a tool message of N tool-result parts becomes exactly N wire messages
\* of role tool, in part order, the k-th with the k-th part's toolCallId as
\* tool_call_id and the serialization of its result as content.
C6_ToolFanOut ==
  \A j \in 1..Len(original) :
    HasRole(j, "tool") =>
      /\ ~ThrewAt(j)
      /\ ConvertedAt(j) =>
           /\ Len(segments[j]) = Len(PartsOf(j))
           /\ \A k \in 1..Len(segments[j]) :
                /\ Get(segments[j][k], "role")
                     = UnlessOverlaid(PartsOf(j)[k], "role",
                         UnlessOverlaid(original[j], "role", Str("tool")))
                /\ Get(segments[j][k], "tool_call_id") = Get(PartsOf(j)[k], "toolCallId")
                /\ Get(segments[j][k], "content")
                     = UnlessOverlaid(PartsOf(j)[k], "content",
                         UnlessOverlaid(original[j], "content",
                           JSONstringify(Get(PartsOf(j)[k], "result"))))

\* The j-th message is a user message of text and image parts only that is
\* not a single text part
IsMixedUserMessage(j) ==
  /\ HasRole(j, "user")
  /\ ~IsSingleTextPart(Get(original[j], "content"))
  /\ \A k \in 1..Len(PartsOf(j)) :
       Get(PartsOf(j)[k], "type") \in {Str("text"), Str("image")}

\* C7: a user message of text and image parts that is not a single text part
\* becomes one wire message whose content is an array as long as the input
\* content, the k-th element the mapping of the k-th part (text -> type text
\* with the same text, image -> type image_url).
C7_UserPartsInOrder ==
  \A j \in 1..Len(original) :
    IsMixedUserMessage(j) =>
      /\ ~ThrewAt(j)
      /\ ConvertedAt(j) =>
           /\ Len(segments[j]) = 1
           /\ ~Has(Overlay(original[j]), "content") =>
                /\ IsArray(Get(segments[j][1], "content"))
                /\ Len(Get(segments[j][1], "content").els) = Len(PartsOf(j))
                /\ \A k \in 1..Len(PartsOf(j)) :
                     LET w == Get(segments[j][1], "content").els[k]
                     IN  IF Get(PartsOf(j)[k], "type") = Str("text")
                           THEN /\ Get(w, "type") = Str("text")
                                /\ Get(w, "text")
                                     = UnlessOverlaid(PartsOf(j)[k], "text",
                                                      Get(PartsOf(j)[k], "text"))
                           ELSE Get(w, "type") = Str("image_url")

\* Some user message of the caller's conversation holds a file part
HasFilePart ==
  \E j \in 1..Len(original) :
    /\ HasRole(j, "user")
    /\ \E k \in 1..Len(PartsOf(j)) : Get(PartsOf(j)[k], "type") = Str("file")

\* C8: a conversation in which some user message holds a file part fails with
\* UnsupportedFunctionalityError and returns no wire message at all.
C8_FilePartFails ==
  HasFilePart =>
    /\ pc # "returned"
    /\ returned = <<>>
    /\ pc = "thrown" => thrown = UnsupportedFunctionalityError

(***************************************************************************)
(* embed (src/unnamed/part_002)                                            *)
(*                                                                         *)
(* prepareRetries, retry, recordSpan and selectTelemetryAttributes are     *)
(* imported by embed and their code is not part of the sources; they       *)
(* follow spec.md 4.2 (retry policy, cancellation, observability).         *)
(***************************************************************************)

\* The provider fails transiently at most this often before it succeeds
MaxFailures == 4

\* The largest maxRetries option a caller gives
MaxRetriesOption == 3

\* "Default: 2" (the doc comment of embed)
DefaultMaxRetries == 2

SupportedVersion == "v2"

UnsupportedModelVersionError == "UnsupportedModelVersionError"

\* The error of a transient provider failure, and the cancellation error
Transient == "Transient"

Cancelled == "AbortError"

\* The caller's options
Value == "sunny day"

Headers == "headers"

ProviderOptions == "providerOptions"

Versions == {"v1", SupportedVersion}

RetryOptions == {<<>>} \cup {<<n>> : n \in 0..MaxRetriesOption}

\* The usage of a provider response: missing, without a count, with a count
Usages == {"undefined", "{}", "{tokens:7}"}

\* usage.tokens
TokensOf(usage) ==
  CASE usage = "{tokens:7}"   -> "7"
    [] usage = "{tokens:NaN}" -> "NaN"
    [] OTHER                  -> "undefined"

\* modelResponse.usage ?? { tokens: NaN } (line 131)
UsageOrDefault(usage) == IF usage = "undefined" THEN "{tokens:NaN}" ELSE usage

\* spec.md 4.2: maxRetries is configurable, its default is 2
prepareRetries(option, signal) ==
  [maxRetries |-> IF option = <<>> THEN DefaultMaxRetries ELSE option[1],
   signal     |-> signal]

\* spec.md 4.2: only transient failures are retried, up to maxRetries
\* additional times after the first failure
ShouldRetry(error, tries, bound) == error.name = Transient /\ tries <= bound

\* spec.md 4.2: thunks are evaluated only when telemetry is enabled
selectTelemetryAttributes(thunk) == IF telemetry THEN <<thunk>> ELSE <<>>

\* spec.md 4.2, 6: the events a span emits to the tracer
SpanStart(name) == [ev |-> "start", span |-> name, tokens |-> ""]

SpanSet(name, tokens) == [ev |-> "set", span |-> name, tokens |-> tokens]

SpanEnd(name) == [ev |-> "end", span |-> name, tokens |-> ""]

\* 'ai.value' serialized whether telemetry is enabled or not
ValueSerializedEagerly == <<"ai.value">>

\* 'ai.value': { input: () => JSON.stringify(value) } handed to
\* selectTelemetryAttributes (lines 95-102)
ValueAttribute == selectTelemetryAttributes("ai.value")

\* Every model passes, whatever its version
VersionUnchecked == TRUE

\* model.specificationVersion !== 'v2' does not hold (line 74)
VersionSupported == specificationVersion = SupportedVersion

\* The maxRetries embed hands to prepareRetries, with the option left out
RetriesIgnored == <<>>

\* The maxRetries embed hands to prepareRetries (line 82)
RetriesRequested == maxRetriesArg

\* The cancellation token embed hands to prepareRetries (line 82): none
RetrySignal == "none"

\* spec.md 5: retry checks the token it was given before it starts an attempt
RetryCancelled == RetrySignal = "caller" /\ abortSignal.aborted

\* The arguments of model.doEmbed with the signal left out
DoEmbedArgumentsUnsignalled ==
  [values |-> <<Value>>, abortSignal |-> "none", headers |-> Headers,
   providerOptions |-> ProviderOptions]

\* The arguments of model.doEmbed (lines 123-128)
DoEmbedArguments ==
  [values |-> <<Value>>, abortSignal |-> "caller", headers |-> Headers,
   providerOptions |-> ProviderOptions]

Terminal == {"resolved", "rejected"}

InitEmbed ==
  /\ NormIdle
  /\ phase = "start"
  /\ specificationVersion \in Versions
  /\ maxRetriesArg \in RetryOptions
  /\ telemetry \in BOOLEAN
  /\ abortSignal \in {[aborted |-> b, tries |-> 0, calls |-> 0] : b \in BOOLEAN}
  /\ failures \in 0..MaxFailures
  /\ maxRetries = 0
  /\ tryNumber = 0
  /\ doEmbedCalls = <<>>
  /\ errors = <<>>
  /\ spanLog = <<>>
  /\ thunks = <<>>
  /\ modelResponse = NoResponse
  /\ embedResult = NoResult
  /\ rejection = NoError

\* Lines 74-80: a model of another version is rejected
CheckVersion ==
  /\ phase = "start"
  /\ ~VersionSupported
  /\ phase' = "rejected"
  /\ rejection' = [name |-> UnsupportedModelVersionError, attempt |-> 0]
  /\ UNCHANGED <<specificationVersion, maxRetriesArg, telemetry, abortSignal,
                 failures, maxRetries, tryNumber, doEmbedCalls, errors, spanLog,
                 thunks, modelResponse, embedResult>>
  /\ UNCHANGED normVars

\* Lines 82-104: the retry bound is resolved and the outer span starts
StartEmbed ==
  /\ phase = "start"
  /\ VersionSupported
  /\ maxRetries' = prepareRetries(RetriesRequested, RetrySignal).maxRetries
  /\ thunks' = thunks \o ValueAttribute
  /\ spanLog' = Append(spanLog, SpanStart("ai.embed"))
  /\ phase' = "retrying"
  /\ UNCHANGED <<specificationVersion, maxRetriesArg, telemetry, abortSignal,
                 failures, tryNumber, doEmbedCalls, errors, modelResponse,
                 embedResult, rejection>>
  /\ UNCHANGED normVars

\* Lines 105-122: retry starts an attempt and its inner span starts, unless
\* the token retry was given is triggered
StartAttempt ==
  /\ phase = "retrying"
  /\ IF RetryCancelled
       THEN /\ phase' = "failing"
            /\ rejection' = [name |-> Cancelled, attempt |-> tryNumber]
            /\ UNCHANGED <<tryNumber, thunks, spanLog>>
       ELSE /\ tryNumber' = tryNumber + 1
            /\ thunks' = thunks \o selectTelemetryAttributes("ai.values")
            /\ spanLog' = Append(spanLog, SpanStart("ai.embed.doEmbed"))
            /\ phase' = "calling"
            /\ UNCHANGED rejection
  /\ UNCHANGED <<specificationVersion, maxRetriesArg, telemetry, abortSignal,
                 failures, maxRetries, doEmbedCalls, errors, modelResponse,
                 embedResult>>
  /\ UNCHANGED normVars

\* The provider is called twice within one attempt
CallDoEmbedTwice ==
  /\ phase = "calling"
  /\ doEmbedCalls' = doEmbedCalls \o <<DoEmbedArguments, DoEmbedArguments>>
  /\ phase' = "inFlight"
  /\ UNCHANGED <<specificationVersion, maxRetriesArg, telemetry, abortSignal,
                 failures, maxRetries, tryNumber, errors, spanLog, thunks,
                 modelResponse, embedResult, rejection>>
  /\ UNCHANGED normVars

\* Lines 123-128: the provider is called
CallDoEmbed ==
  /\ phase = "calling"
  /\ doEmbedCalls' = Append(doEmbedCalls, DoEmbedArguments)
  /\ phase' = "inFlight"
  /\ UNCHANGED <<specificationVersion, maxRetriesArg, telemetry, abortSignal,
                 failures, maxRetries, tryNumber, errors, spanLog, thunks,
                 modelResponse, embedResult, rejection>>
  /\ UNCHANGED normVars

\* Line 123: the provider answers
DoEmbedSucceeds ==
  /\ phase = "inFlight"
  /\ Len(doEmbedCalls) > failures
  /\ \E usage \in Usages :
       modelResponse' =
         [attempt |-> Len(doEmbedCalls), embeddings |-> <<"e0", "e1">>,
          usage |-> usage, providerMetadata |-> "providerMetadata",
          response |-> "response"]
  /\ phase' = "answered"
  /\ UNCHANGED <<specificationVersion, maxRetriesArg, telemetry, abortSignal,
                 failures, maxRetries, tryNumber, doEmbedCalls, errors, spanLog,
                 thunks, embedResult, rejection>>
  /\ UNCHANGED normVars

\* Line 123: the provider fails transiently
DoEmbedFails ==
  /\ phase = "inFlight"
  /\ Len(doEmbedCalls) <= failures
  /\ errors' = Append(errors, [name |-> Transient, attempt |-> Len(doEmbedCalls)])
  /\ phase' = "threw"
  /\ UNCHANGED <<specificationVersion, maxRetriesArg, telemetry, abortSignal,
                 failures, maxRetries, tryNumber, doEmbedCalls, spanLog, thunks,
                 modelResponse, embedResult, rejection>>
  /\ UNCHANGED normVars

\* Lines 123-125: the provider gives up because the signal it was given is
\* triggered
DoEmbedAborts ==
  /\ phase = "inFlight"
  /\ abortSignal.aborted
  /\ doEmbedCalls[Len(doEmbedCalls)].abortSignal = "caller"
  /\ errors' = Append(errors, [name |-> Cancelled, attempt |-> Len(doEmbedCalls)])
  /\ phase' = "threw"
  /\ UNCHANGED <<specificationVersion, maxRetriesArg, telemetry, abortSignal,
                 failures, maxRetries, tryNumber, doEmbedCalls, spanLog, thunks,
                 modelResponse, embedResult, rejection>>
  /\ UNCHANGED normVars

\* The last element of the response's embeddings
LastEmbedding == modelResponse.embeddings[Len(modelResponse.embeddings)]

\* const embedding = modelResponse.embeddings[0] (line 130)
FirstEmbedding == modelResponse.embeddings[1]

\* Lines 130-154: the attributes of the inner span are set and it ends
FinishAttempt ==
  /\ phase = "answered"
  /\ thunks' = thunks \o selectTelemetryAttributes("ai.embeddings")
  /\ spanLog' = spanLog \o
       <<SpanSet("ai.embed.doEmbed", TokensOf(UsageOrDefault(modelResponse.usage))),
         SpanEnd("ai.embed.doEmbed")>>
  /\ phase' = "finishing"
  /\ UNCHANGED <<specificationVersion, maxRetriesArg, telemetry, abortSignal,
                 failures, maxRetries, tryNumber, doEmbedCalls, errors,
                 modelResponse, embedResult, rejection>>
  /\ UNCHANGED normVars

\* Lines 105-156: the inner span ends with the error and retry tries again
RetryAttempt ==
  /\ phase = "threw"
  /\ ShouldRetry(errors[Len(errors)], tryNumber, maxRetries)
  /\ spanLog' = Append(spanLog, SpanEnd("ai.embed.doEmbed"))
  /\ phase' = "retrying"
  /\ UNCHANGED <<specificationVersion, maxRetriesArg, telemetry, abortSignal,
                 failures, maxRetries, tryNumber, doEmbedCalls, errors, thunks,
                 modelResponse, embedResult, rejection>>
  /\ UNCHANGED normVars

\* Lines 105-156: the inner span ends with the error and retry gives it up
GiveUp ==
  /\ phase = "threw"
  /\ ~ShouldRetry(errors[Len(errors)], tryNumber, maxRetries)
  /\ spanLog' = Append(spanLog, SpanEnd("ai.embed.doEmbed"))
  /\ rejection' = errors[Len(errors)]
  /\ phase' = "failing"
  /\ UNCHANGED <<specificationVersion, maxRetriesArg, telemetry, abortSignal,
                 failures, maxRetries, tryNumber, doEmbedCalls, errors, thunks,
                 modelResponse, embedResult>>
  /\ UNCHANGED normVars

\* Lines 158-175: the attributes of the outer span are set, the result is
\* made and the outer span ends
FinishEmbed ==
  /\ phase = "finishing"
  /\ thunks' = thunks \o selectTelemetryAttributes("ai.embedding")
  /\ spanLog' = spanLog \o
       <<SpanSet("ai.embed", TokensOf(UsageOrDefault(modelResponse.usage))),
         SpanEnd("ai.embed")>>
  /\ embedResult' =
       [made |-> TRUE, value |-> Value,
        embedding |-> FirstEmbedding,
        usage |-> UsageOrDefault(modelResponse.usage),
        providerMetadata |-> modelResponse.providerMetadata,
        response |-> modelResponse.response,
        attempt |-> modelResponse.attempt]
  /\ phase' = "resolved"
  /\ UNCHANGED <<specificationVersion, maxRetriesArg, telemetry, abortSignal,
                 failures, maxRetries, tryNumber, doEmbedCalls, errors,
                 modelResponse, rejection>>
  /\ UNCHANGED normVars

\* Lines 93-176: the outer span ends with the error and embed rejects
FailEmbed ==
  /\ phase = "failing"
  /\ spanLog' = Append(spanLog, SpanEnd("ai.embed"))
  /\ phase' = "rejected"
  /\ UNCHANGED <<specificationVersion, maxRetriesArg, telemetry, abortSignal,
                 failures, maxRetries, tryNumber, doEmbedCalls, errors, thunks,
                 modelResponse, embedResult, rejection>>
  /\ UNCHANGED normVars

\* embed is suspended, at the provider call (line 123) or in the delay retry
\* leaves between two attempts (line 105): the caller's code runs meanwhile
Suspended == phase = "inFlight" \/ (phase = "retrying" /\ tryNumber >= 1)

\* Lines 30, 54: the caller triggers the signal while the call is suspended
\* (a signal triggered before the call is one of the initial states)
Abort ==
  /\ Suspended
  /\ ~abortSignal.aborted
  /\ abortSignal' =
       [aborted |-> TRUE, tries |-> tryNumber, calls |-> Len(doEmbedCalls)]
  /\ UNCHANGED <<phase, specificationVersion, maxRetriesArg, telemetry, failures,
                 maxRetries, tryNumber, doEmbedCalls, errors, spanLog, thunks,
                 modelResponse, embedResult, rejection>>
  /\ UNCHANGED normVars

NextEmbed ==
  \/ CheckVersion
  \/ StartEmbed
  \/ StartAttempt
  \/ CallDoEmbed
  \/ DoEmbedSucceeds
  \/ DoEmbedFails
  \/ DoEmbedAborts
  \/ FinishAttempt
  \/ RetryAttempt
  \/ GiveUp
  \/ FinishEmbed
  \/ FailEmbed
  \/ Abort

SpecEmbed == InitEmbed /\ [][NextEmbed]_vars

(***************************************************************************)
(* The retry bound and cancellation                                        *)
(***************************************************************************)

\* The retries a caller asked for, an omitted option counting as 2
RetriesAskedFor == IF maxRetriesArg = <<>> THEN 2 ELSE maxRetriesArg[1]

\* The call is over, for a supported model whose caller never cancelled
EndedUncancelled ==
  /\ phase \in Terminal
  /\ specificationVersion = SupportedVersion
  /\ ~abortSignal.aborted

\* C9: when doEmbed fails transiently K times and then succeeds, embed with
\* maxRetries = K resolves after exactly K+1 invocations of doEmbed; with
\* maxRetries = K-1 it rejects after exactly K invocations, with the last
\* error doEmbed threw, unchanged and unwrapped; with maxRetries = 0 doEmbed
\* is invoked exactly once; an omitted maxRetries counts as 2.
C9_RetryBound ==
  EndedUncancelled =>
    /\ RetriesAskedFor = failures =>
         /\ phase = "resolved"
         /\ Len(doEmbedCalls) = failures + 1
    /\ RetriesAskedFor = failures - 1 =>
         /\ phase = "rejected"
         /\ Len(doEmbedCalls) = failures
         /\ errors # <<>>
         /\ rejection = errors[Len(errors)]
         /\ rejection = [name |-> Transient, attempt |-> failures]
    /\ RetriesAskedFor = 0 => Len(doEmbedCalls) = 1

\* embed resolved after as many retries as the caller allowed, at least one
C9_Witness ==
  /\ EndedUncancelled
  /\ phase = "resolved"
  /\ failures >= 1
  /\ maxRetriesArg = <<failures>>
  /\ Len(doEmbedCalls) = failures + 1

\* The signal was triggered before retry started the first attempt
CancelledBeforeFirstAttempt ==
  /\ specificationVersion = SupportedVersion
  /\ abortSignal.aborted
  /\ abortSignal.tries = 0

\* C10: when the signal is triggered before the first attempt starts, doEmbed
\* is never invoked and embed rejects with the cancellation error, whatever
\* maxRetries is.
C10_CancelledBeforeStart ==
  CancelledBeforeFirstAttempt =>
    /\ doEmbedCalls = <<>>
    /\ phase \in Terminal =>
         /\ phase = "rejected"
         /\ rejection.name = Cancelled

(***************************************************************************)
(* The version check                                                       *)
(***************************************************************************)

\* C11: a model whose specificationVersion is not 'v2' is rejected with an
\* UnsupportedModelVersionError before any other work: doEmbed is never
\* invoked, retry starts no attempt and no span is started on the tracer.
C11_UnsupportedVersionRejected ==
  specificationVersion # SupportedVersion =>
    /\ doEmbedCalls = <<>>
    /\ tryNumber = 0
    /\ spanLog = <<>>
    /\ phase \in {"start", "rejected"}
    /\ phase = "rejected" => rejection.name = UnsupportedModelVersionError
    /\ embedResult = NoResult

\* embed rejected a model of another version
C11_Witness ==
  /\ specificationVersion = "v1"
  /\ phase = "rejected"
  /\ rejection.name = UnsupportedModelVersionError

(***************************************************************************)
(* Cancellation while the call is under way                                *)
(***************************************************************************)

\* The signal was triggered during an attempt or between two attempts
CancelledUnderWay == abortSignal.aborted /\ abortSignal.tries >= 1

\* C12: once the signal has fired, during an attempt or between attempts,
\* retry starts no further attempt and no doEmbed invocation begins, and the
\* call ends rejected with the cancellation error, also when retries remain.
C12_NoAttemptAfterCancel ==
  CancelledUnderWay =>
    /\ tryNumber = abortSignal.tries
    /\ Len(doEmbedCalls) = abortSignal.calls
    /\ phase \in Terminal =>
         /\ phase = "rejected"
         /\ rejection.name = Cancelled

(***************************************************************************)
(* Lazy telemetry attributes                                               *)
(***************************************************************************)

\* How often x occurs in the sequence seq
Count(seq, x) == Cardinality({k \in 1..Len(seq) : seq[k] = x})

\* How often the attributes of the span called name were set after its start
SetEvents(name) ==
  Cardinality({k \in 1..Len(spanLog) : spanLog[k].ev = "set" /\ spanLog[k].span = name})

\* C13: with telemetry disabled none of the thunks 'ai.value', 'ai.values',
\* 'ai.embeddings', 'ai.embedding' is ever evaluated, on success, on every
\* retry and on failure; with telemetry enabled each is evaluated only when
\* the attributes of its span are set: 'ai.value' when the outer span starts,
\* 'ai.values' when an inner span starts, 'ai.embeddings' and 'ai.embedding'
\* when the attributes of the inner and the outer span are set.
C13_LazyThunks ==
  /\ ~telemetry => thunks = <<>>
  /\ telemetry =>
       /\ Range(thunks) \subseteq {"ai.value", "ai.values", "ai.embeddings", "ai.embedding"}
       /\ Count(thunks, "ai.value") = Count(spanLog, SpanStart("ai.embed"))
       /\ Count(thunks, "ai.values") = Count(spanLog, SpanStart("ai.embed.doEmbed"))
       /\ Count(thunks, "ai.embeddings") = SetEvents("ai.embed.doEmbed")
       /\ Count(thunks, "ai.embedding") = SetEvents("ai.embed")

\* embed resolved after a retry with telemetry disabled, no thunk evaluated
C13_Witness ==
  /\ ~telemetry
  /\ phase = "resolved"
  /\ Len(doEmbedCalls) >= 2
  /\ thunks = <<>>

(***************************************************************************)
(* System messages                                                         *)
(***************************************************************************)

\* C14: a system message becomes exactly one wire message
\* { role: system, content: <the message's string> } merged with the message's
\* overlay for the target namespace; on a key the overlay shares with role or
\* content the overlay's value is the one in the output.
C14_SystemOverlayWins ==
  \A j \in 1..Len(original) :
    HasRole(j, "system") =>
      /\ ~ThrewAt(j)
      /\ ConvertedAt(j) =>
           /\ Len(segments[j]) = 1
           /\ WireEqual(
                Delete(segments[j][1], "providerMetadata"),
                ObjectAssign(
                  Obj(<<"role", "content">>,
                      <<Str("system"), Get(original[j], "content")>>),
                  Overlay(original[j])))

(***************************************************************************)
(* Usage                                                                   *)
(***************************************************************************)

\* The count to report for a provider response's usage: the count it
\* supplies, the not-a-number sentinel when it supplies none
ReportedTokens(usage) == IF usage = "{tokens:7}" THEN "7" ELSE "NaN"

\* C15: when the provider response leaves the usage count absent (no usage
\* object, or a usage object without tokens) the usage of the result and the
\* 'ai.usage.tokens' attribute of both spans are the not-a-number sentinel,
\* never zero and never undefined; a supplied count is reported unchanged.
C15_AbsentUsageIsNaN ==
  /\ embedResult.made =>
       TokensOf(embedResult.usage) = ReportedTokens(modelResponse.usage)
  /\ \A k \in 1..Len(spanLog) :
       spanLog[k].ev = "set" => spanLog[k].tokens = ReportedTokens(modelResponse.usage)

(***************************************************************************)
(* Assistant text parts                                                    *)
(***************************************************************************)

\* Field k of the wire message w of the assistant message m is what it is
\* without any text part's overlay: the message overlay's value, else the
\* structural value, else nothing
FieldWithoutTextOverlays(w, m, k) ==
  IF Has(Overlay(m), k) THEN Get(w, k) = Get(Overlay(m), k)
  ELSE IF k = "content" THEN Get(w, k) = Str(TextOf(Get(m, "content").els))
  ELSE IF k = "role" THEN Get(w, k) = Str("assistant")
  ELSE IF k = "tool_calls" THEN TRUE
  ELSE ~Has(w, k)

\* C16: the overlays of an assistant message's text parts are discarded: none
\* of their keys appears on the wire message or changes a field of it, and
\* the content is the texts of the text parts themselves, whatever their
\* overlays hold.
C16_TextPartOverlaysDiscarded ==
  \A j \in 1..Len(original) :
    HasRole(j, "assistant") =>
      /\ ~ThrewAt(j)
      /\ ConvertedAt(j) =>
           /\ Len(segments[j]) = 1
           /\ FieldWithoutTextOverlays(segments[j][1], original[j], "content")
           /\ \A p \in Range(PartsOfType(PartsOf(j), "text")) :
                \A k \in Range(Overlay(p).keys) :
                  FieldWithoutTextOverlays(segments[j][1], original[j], k)

(***************************************************************************)
(* args and result values                                                  *)
(***************************************************************************)

\* The function.arguments strings of the wire message w, in order
WireArguments(w) ==
  LET entries == IF IsArray(Get(w, "tool_calls")) THEN Get(w, "tool_calls").els ELSE <<>>
  IN  [k \in 1..Len(entries) |-> Get(Get(entries[k], "function"), "arguments")]

\* The serializations of the args of the tool-call parts among parts, in
\* order, as the caller supplied them
SuppliedArguments(parts) ==
  LET toolCallParts == PartsOfType(parts, "tool-call")
  IN  [k \in 1..Len(toolCallParts) |-> JSONstringify(Get(toolCallParts[k], "args"))]

\* C17: function.arguments of a tool call and content of a tool message are
\* the serialization of the args / result value exactly as the caller
\* supplied it: nothing inside such a value is read, rewritten or removed by
\* the overlay handling, whatever nested fields it has.
C17_ArgsAndResultUntouched ==
  \A j \in 1..Len(original) :
    /\ (HasRole(j, "assistant") /\ ConvertedAt(j) /\ Len(segments[j]) = 1) =>
         WireArguments(segments[j][1]) = SuppliedArguments(PartsOf(j))
    /\ (HasRole(j, "tool") /\ ConvertedAt(j) /\ Len(segments[j]) = Len(PartsOf(j))) =>
         \A k \in 1..Len(PartsOf(j)) :
           (~Has(Overlay(PartsOf(j)[k]), "content") /\ ~Has(Overlay(original[j]), "content")) =>
             Get(segments[j][k], "content") = JSONstringify(Get(PartsOf(j)[k], "result"))

(***************************************************************************)
(* Spans                                                                   *)
(***************************************************************************)

\* Where in the tracer's log the span called name starts / ends
Starts(name) == {k \in 1..Len(spanLog) : spanLog[k] = SpanStart(name)}

Ends(name) == {k \in 1..Len(spanLog) : spanLog[k] = SpanEnd(name)}

\* The events of the inner spans
InnerEvents == {k \in 1..Len(spanLog) : spanLog[k].span = "ai.embed.doEmbed"}

\* C18: once the version check is passed exactly one outer span 'ai.embed' is
\* started; every attempt runs in an inner span 'ai.embed.doEmbed' of its
\* own, started after the outer span started and ended before the outer span
\* ends; there are as many inner spans as doEmbed invocations; every started
\* span is ended, on success, on a retried failure and on the final failure.
C18_SpansNested ==
  /\ phase # "start" /\ VersionSupported => Cardinality(Starts("ai.embed")) = 1
  /\ Cardinality(Ends("ai.embed")) <= 1
  /\ \A k \in InnerEvents :
       /\ \E s \in Starts("ai.embed") : s < k
       /\ \A e \in Ends("ai.embed") : k < e
  /\ Cardinality(Starts("ai.embed.doEmbed")) = tryNumber
  /\ Cardinality(Starts("ai.embed.doEmbed"))
       = Len(doEmbedCalls) + (IF phase = "calling" THEN 1 ELSE 0)
  /\ \A s \in Starts("ai.embed.doEmbed") :
       \A t \in Starts("ai.embed.doEmbed") :
         s < t => \E e \in Ends("ai.embed.doEmbed") : s < e /\ e < t
  /\ phase \in {"retrying", "finishing", "failing"} \cup Terminal =>
       Cardinality(Ends("ai.embed.doEmbed")) = Cardinality(Starts("ai.embed.doEmbed"))
  /\ phase \in Terminal =>
       Cardinality(Ends("ai.embed")) = Cardinality(Starts("ai.embed"))

\* embed rejected after a retried failure and a final failure, every span
\* ended
C18_Witness ==
  /\ phase = "rejected"
  /\ tryNumber >= 2
  /\ Cardinality(Ends("ai.embed.doEmbed")) = tryNumber
  /\ Cardinality(Ends("ai.embed")) = 1

(***************************************************************************)
(* The arguments of the provider call                                      *)
(***************************************************************************)

\* C19: every doEmbed invocation, the first and every retry, receives the
\* caller's cancellation signal, headers and providerOptions unchanged and
\* the one-element list [value] as values; none is made without the signal.
C19_CallArguments ==
  \A k \in 1..Len(doEmbedCalls) :
    /\ doEmbedCalls[k].values = <<"sunny day">>
    /\ doEmbedCalls[k].abortSignal = "caller"
    /\ doEmbedCalls[k].headers = "headers"
    /\ doEmbedCalls[k].providerOptions = "providerOptions"

\* doEmbed was invoked for a first attempt and for a retry, with the signal
C19_Witness ==
  /\ Len(doEmbedCalls) >= 2
  /\ doEmbedCalls[1].abortSignal = "caller"
  /\ doEmbedCalls[2].abortSignal = "caller"

(***************************************************************************)
(* Reusing a conversation object                                           *)
(***************************************************************************)

\* C20: normalizing the same conversation object a second time ends as the
\* first call did, which ran on the conversation as the caller built it: the
\* same wire messages are returned, or the same error is thrown.
C20_ReuseIsSafe ==
  (call = 2 /\ Done) =>
    /\ pc = firstOutcome.pc
    /\ returned = firstOutcome.returned
    /\ thrown = firstOutcome.thrown

\* A second call returned wire messages for a conversation the first call
\* had rewritten
C20_Witness ==
  /\ call = 2
  /\ pc = "returned"
  /\ prompt # original
  /\ returned # <<>>
  /\ returned = firstOutcome.returned

(***************************************************************************)
(* The result                                                              *)
(***************************************************************************)

\* Some doEmbed attempt succeeded
SomeAttemptSucceeded == modelResponse.attempt >= 1

\* C21: embed produces a result only from a successful attempt and at most
\* once: the call resolves iff some doEmbed attempt succeeded; the result's
\* value is the caller's value, its embedding is element 0 of the successful
\* response's embeddings, and its usage, providerMetadata and response are
\* those of that same attempt; when every attempt fails there is no result.
C21_ResultFromSuccessfulAttempt ==
  /\ [](/\ embedResult.made <=> phase = "resolved"
        /\ phase \in Terminal => (phase = "resolved" <=> SomeAttemptSucceeded)
        /\ phase = "rejected" => embedResult = NoResult
        /\ embedResult.made =>
             /\ embedResult.value = "sunny day"
             /\ embedResult.embedding = "e0"
             /\ embedResult.attempt = Len(doEmbedCalls)
             /\ embedResult.attempt > Len(errors)
             /\ modelResponse.attempt = embedResult.attempt
             /\ modelResponse.usage # "undefined" => embedResult.usage = modelResponse.usage
             /\ embedResult.providerMetadata = modelResponse.providerMetadata
             /\ embedResult.response = modelResponse.response)
  /\ [][embedResult.made => embedResult' = embedResult]_vars

\* embed resolved with the result of an attempt that followed a failed one
C21_Witness ==
  /\ phase = "resolved"
  /\ embedResult.made
  /\ embedResult.attempt >= 2
  /\ errors # <<>>
  /\ embedResult.embedding = "e0"

(***************************************************************************)
(* Length and order of the wire array                                      *)
(***************************************************************************)

\* The wire messages the caller's j-th message stands for: one per
\* tool-result part of a tool message, one for any other message
WireCount(j) == IF HasRole(j, "tool") THEN Len(PartsOf(j)) ELSE 1

\* The sequences of segs one after the other
RECURSIVE Flatten(_)
Flatten(segs) == IF segs = <<>> THEN <<>> ELSE Head(segs) \o Flatten(Tail(segs))

\* C22: when a conversation normalizes without error the wire array has one
\* message per system, user and assistant message plus one per tool-result
\* part, a tool message without parts adding none, and the wire messages of
\* message i all come before those of message j whenever i < j.
C22_WireLengthAndOrder ==
  pc = "returned" =>
    /\ Len(segments) = Len(original)
    /\ \A j \in 1..Len(segments) : Len(segments[j]) = WireCount(j)
    /\ returned = Flatten(segments)

=============================================================================
